---- MODULE Spec2Model ----
(***************************************************************************)
(* The crawl state machine of the Finn.no job scraper (src/src/main.ts):   *)
(* the LIST and DETAIL handlers of the router, the shared counter          *)
(* scrapedJobsCount, the request queue of the crawler and the dataset.     *)
(*                                                                         *)
(* A handler is an async function: every `await` is a point where other    *)
(* handlers run, so each action below is one synchronous segment of a      *)
(* handler, or the completion of the call it awaits.                       *)
(***************************************************************************)
EXTENDS Integers, Sequences, FiniteSets, TLC

\* ------------------------------------------------------------------ bounds

\* Size of the worker pool (the program sets maxConcurrency: 10).
NumWorkers == 2

\* The input maxJobs ranges over 1..MaxJobsBound (the input schema: min 1).
MaxJobsBound == 2

Workers == 1..NumWorkers

\* ------------------------------------------------------------------ URLs

\* A URL is a record of the parts the program inspects: its host, its path,
\* a number standing for the rest of the query (finnkode, page), and `ref`,
\* text carried elsewhere in the URL. A relative href has host "".
FinnHost == "www.finn.no"
OtherHost == "jobs.example.org"
SearchPath == "/job/fulltime/search.html"
AdPath == "/job/fulltime/ad.html"
MiscPath == "/company"

Url(h, p, n, r) == [host |-> h, path |-> p, id |-> n, ref |-> r]

Search(n) == Url(FinnHost, SearchPath, n, "")
Ad(n) == Url(FinnHost, AdPath, n, "")
Misc(n) == Url(FinnHost, MiscPath, n, "")
OtherSearch(n) == Url(OtherHost, SearchPath, n, "")
OtherAd(n) == Url(OtherHost, AdPath, n, "")
OtherMisc(n) == Url(OtherHost, MiscPath, n, "")
RelSearch(n) == Url("", SearchPath, n, "")
RelAd(n) == Url("", AdPath, n, "")
RelMisc(n) == Url("", MiscPath, n, "")

NoUrl == Url("", "", 0, "")

\* request.url.includes('finn.no'): a substring test on the whole URL, true
\* of the target host and of any URL that carries the text elsewhere.
IncludesFinn(u) == u.host = FinnHost \/ u.ref = "finn.no"

\* href.includes('/job/fulltime/ad.html')
IncludesAdPath(h) == h.path = AdPath

\* href.startsWith('http') ? href : `https://www.finn.no${href}`
AbsoluteUrl(h) == IF h.host # "" THEN h ELSE [h EXCEPT !.host = FinnHost]

\* The host of the request is the target site.
HostIsTarget(u) == u.host = FinnHost

\* ------------------------------------------------------------------ helpers

Min(a, b) == IF a < b THEN a ELSE b

Range(s) == {s[i] : i \in 1..Len(s)}

Take(s, n) == SubSeq(s, 1, Min(n, Len(s)))

\* ------------------------------------------------------------------ pages

\* A listing page, as the handler's selectors see it: sel[n] is the ordered
\* list of hrefs of the elements the n-th job-link selector matches
\* (sel[4] is 'a[href*="/job/fulltime/ad.html"]'), pag[n] the same for the
\* n-th pagination selector. An element without href has the href NoUrl.
ListPage(s1, s2, s3, s4, p1, p2) == [sel |-> <<s1, s2, s3, s4>>, pag |-> <<p1, p2>>]

EmptyList == ListPage(<<>>, <<>>, <<>>, <<>>, <<>>, <<>>)

\* A detail page, as the title selectors see it: the trimmed text of the
\* first match of each of the two title strategies.
DetailPage(main, sub) == [mainTitle |-> main, subTitle |-> sub]

PlainDetail == DetailPage("Utvikler", "Utvikler")

\* The sites the crawl is run against. Each gives the seed (searchUrl), the
\* listing pages and the detail pages that differ from PlainDetail.
\*
\* SiteOvershoot: three listing pages found through different selectors of
\* the chain, the same ad linked from several pages, one ad without a title.
SiteOvershoot ==
    [seed |-> Search(0),
     list |-> (Search(0) :> ListPage(<<RelAd(1)>>, <<>>, <<>>, <<RelAd(1)>>,
                                      <<RelSearch(1), RelSearch(2)>>, <<>>)
            @@ Search(1) :> ListPage(<<>>, <<RelAd(1), RelAd(2)>>, <<>>, <<RelAd(1), RelAd(2)>>,
                                      <<>>, <<RelSearch(2)>>)
            @@ Search(2) :> ListPage(<<>>, <<>>, <<>>, <<RelAd(3), RelAd(2)>>, <<>>, <<>>)),
     detail |-> (Ad(3) :> DetailPage("", ""))]

\* SiteForeign: job links that are no ads or lead to another host, the
\* same ad linked twice on one page, and a pagination link to another host.
SiteForeign ==
    [seed |-> Search(0),
     list |-> (Search(0) :> ListPage(<<>>, <<>>, <<OtherAd(4)>>, <<OtherAd(4)>>,
                                      <<OtherSearch(9), RelSearch(1)>>, <<>>)
            @@ Search(1) :> ListPage(<<RelMisc(7), RelAd(1), RelAd(1), RelAd(2)>>, <<>>, <<>>,
                                      <<RelAd(1), RelAd(1), RelAd(2)>>, <<>>, <<>>)),
     detail |-> (Ad(2) :> DetailPage("", "Selger"))]

\* SiteLinks: listing pages without any anchor to an ad, so that the
\* handler takes the enqueueLinks path: a first page on which no job-link
\* selector matches, a second page whose job links lead elsewhere.
SiteLinks ==
    [seed |-> Search(0),
     list |-> (Search(0) :> ListPage(<<>>, <<>>, <<>>, <<>>, <<>>, <<RelSearch(1)>>)
            @@ Search(1) :> ListPage(<<RelMisc(5), OtherMisc(6), RelMisc(7)>>, <<>>, <<>>, <<>>,
                                      <<>>, <<RelSearch(0)>>)),
     detail |-> (Misc(7) :> DetailPage("", ""))]

\* SiteOffTarget: the configured searchUrl is not on the target site.
SiteOffTarget ==
    [seed |-> OtherSearch(0),
     list |-> (OtherSearch(0) :> ListPage(<<RelAd(1)>>, <<>>, <<>>, <<RelAd(1)>>, <<>>, <<>>)),
     detail |-> (Ad(1) :> PlainDetail)]

\* SiteMention: the searchUrl is on another host and carries the text
\* 'finn.no' in its query.
SiteMention ==
    [seed |-> Url(OtherHost, SearchPath, 0, "finn.no"),
     list |-> (Url(OtherHost, SearchPath, 0, "finn.no")
                  :> ListPage(<<RelAd(1)>>, <<>>, <<>>, <<RelAd(1)>>, <<>>, <<>>)),
     detail |-> (Ad(1) :> PlainDetail)]

Sites == <<SiteOvershoot, SiteForeign, SiteLinks, SiteOffTarget, SiteMention>>

ListPageOf(s, u) == IF u \in DOMAIN Sites[s].list THEN Sites[s].list[u] ELSE EmptyList

DetailPageOf(s, u) == IF u \in DOMAIN Sites[s].detail THEN Sites[s].detail[u] ELSE PlainDetail

\* ------------------------------------------------------------------ state

VARIABLES
    site,              \* index into Sites: the site this crawl runs against
    maxJobs,           \* the input maxJobs
    scrapedJobsCount,  \* the module-level counter
    queue,             \* pending requests of the crawler's request queue, in order
    seen,              \* URLs the request queue has ever accepted (its unique keys)
    dataset,           \* records Dataset.pushData has stored, in order
    workers,           \* per worker: the request it holds and its handler's position
    handled,           \* history: how many handler invocations each URL has had
    probe              \* one extraction step run on its own: its input and its result

vars == <<site, maxJobs, scrapedJobsCount, queue, seen, dataset, workers, handled, probe>>

Request(u, l) == [url |-> u, label |-> l]

NoRequest == Request(NoUrl, "NONE")

NoRecord == [url |-> NoUrl, title |-> ""]

\* No extraction step is run on its own.
NoProbe == [step |-> "none"]

\* A worker that holds no request.
IdleWorker ==
    [pc |-> "idle", req |-> NoRequest, remainingJobs |-> 0, i |-> 0,
     offered |-> <<>>, offeredList |-> <<>>, outcome |-> "none", jobData |-> NoRecord]

\* crawler.run([new Request({ url: searchUrl, label: 'LIST' })])
Init ==
    /\ site \in 1..Len(Sites)
    /\ maxJobs \in 1..MaxJobsBound
    /\ scrapedJobsCount = 0
    /\ queue = <<Request(Sites[site].seed, "LIST")>>
    /\ seen = {Sites[site].seed}
    /\ dataset = <<>>
    /\ workers = [w \in Workers |-> IdleWorker]
    /\ handled = <<>>
    /\ probe = NoProbe

\* ------------------------------------------------------------------ request queue

\* A faulty queue: it appends every request, known or not.
QueueAddWithoutDedup(st, r) ==
    [queue |-> Append(st.queue, r), seen |-> st.seen \cup {r.url}]

\* The crawler's request queue keeps one entry per unique key (the URL): a
\* request whose URL it has already accepted is not added again.
QueueAdd(st, r) ==
    IF r.url \in st.seen THEN st
    ELSE [queue |-> Append(st.queue, r), seen |-> st.seen \cup {r.url}]

RECURSIVE QueueAddAll(_, _, _)
QueueAddAll(st, urls, label) ==
    IF urls = <<>> THEN st
    ELSE QueueAddAll(QueueAdd(st, Request(Head(urls), label)), Tail(urls), label)

QueueState == [queue |-> queue, seen |-> seen]

\* ------------------------------------------------------------------ LIST: link discovery

\* A chain without fallbacks: only the first selector is tried.
JobLinksPrimaryOnly(page) == page.sel[1]

\* The selector chain for job links: the first selector that matches
\* anything, the generic anchor selector last.
JobLinks(page) ==
    IF Len(page.sel[1]) # 0 THEN page.sel[1]
    ELSE IF Len(page.sel[2]) # 0 THEN page.sel[2]
    ELSE IF Len(page.sel[3]) # 0 THEN page.sel[3]
    ELSE page.sel[4]

\* The selector chain for pagination links.
PaginationLinks(page) ==
    IF Len(page.pag[1]) # 0 THEN page.pag[1] ELSE page.pag[2]

\* jobLinks.length > 0 && $('a[href*="/job/fulltime/ad.html"]').length > 0
TakesDirectPath(page) == Len(JobLinks(page)) > 0 /\ Len(page.sel[4]) > 0

\* urls: the hrefs of jobLinks that contain the ad path, made absolute.
RECURSIVE DirectUrls(_)
DirectUrls(links) ==
    IF links = <<>> THEN <<>>
    ELSE IF IncludesAdPath(Head(links))
         THEN <<AbsoluteUrl(Head(links))>> \o DirectUrls(Tail(links))
         ELSE DirectUrls(Tail(links))

\* A faulty bound of the loop: urls.length, without the budget.
DirectCountWithoutBudget(urls, remainingJobs) == Len(urls)

\* Math.min(urls.length, remainingJobs): how many URLs the loop enqueues.
DirectCount(urls, remainingJobs) == Min(Len(urls), remainingJobs)

\* enqueueLinks resolves each href against the page's URL and drops the
\* elements without href.
RECURSIVE ResolveLinks(_, _)
ResolveLinks(links, base) ==
    IF links = <<>> THEN <<>>
    ELSE IF Head(links) = NoUrl THEN ResolveLinks(Tail(links), base)
    ELSE <<IF Head(links).host # "" THEN Head(links)
           ELSE [Head(links) EXCEPT !.host = base.host]>>
         \o ResolveLinks(Tail(links), base)

\* The default strategy of enqueueLinks keeps the URLs on the hostname of the
\* page; EnqueueStrategy.All keeps every URL.
RECURSIVE SameHostname(_, _)
SameHostname(urls, base) ==
    IF urls = <<>> THEN <<>>
    ELSE IF Head(urls).host = base.host
         THEN <<Head(urls)>> \o SameHostname(Tail(urls), base)
         ELSE SameHostname(Tail(urls), base)

\* The URLs enqueueLinks({ selector: jobLinks..., label: 'DETAIL',
\* limit: remainingJobs }) hands to the queue.
DetailLinksEnqueued(page, base, remainingJobs) ==
    Take(SameHostname(ResolveLinks(JobLinks(page), base), base), remainingJobs)

\* The URLs enqueueLinks({ selector: paginationLinks...,
\* strategy: EnqueueStrategy.All, label: 'LIST' }) hands to the queue.
ListLinksEnqueued(page, base) == ResolveLinks(PaginationLinks(page), base)

\* A faulty test: >= in place of >.
NeedsNextPageOrEqual(page, remainingJobs) ==
    remainingJobs >= Len(JobLinks(page)) /\ Len(PaginationLinks(page)) > 0

\* remainingJobs > jobLinks.length && paginationLinks.length > 0
NeedsNextPage(page, remainingJobs) ==
    remainingJobs > Len(JobLinks(page)) /\ Len(PaginationLinks(page)) > 0

\* ------------------------------------------------------------------ DETAIL: the record

\* const title = mainTitle || subTitle
Title(page) == IF page.mainTitle # "" THEN page.mainTitle ELSE page.subTitle

\* const jobData = { url: request.url, title, ... }
JobData(req, page) == [url |-> req.url, title |-> Title(page)]

\* ------------------------------------------------------------------ the crawler

Count(u) == IF u \in DOMAIN handled THEN handled[u] ELSE 0

\* One more invocation of a handler for URL u.
Invoked(u) == (u :> (Count(u) + 1)) @@ handled

\* The handler of worker w returns.
Returns(w, how) == [workers[w] EXCEPT !.pc = "done", !.outcome = how]

\* A free worker takes the next request of the queue and fetches its page.
Dispatch(w) ==
    /\ workers[w].pc = "idle"
    /\ queue # <<>>
    /\ workers' = [workers EXCEPT ![w] = [IdleWorker EXCEPT !.pc = "fetch", !.req = Head(queue)]]
    /\ queue' = Tail(queue)
    /\ UNCHANGED <<probe, site, maxJobs, scrapedJobsCount, seen, dataset, handled>>

\* The fetch fails for good: failedRequestHandler logs, no handler runs.
FetchFails(w) ==
    /\ workers[w].pc = "fetch"
    /\ workers' = [workers EXCEPT ![w] = IdleWorker]
    /\ UNCHANGED <<probe, site, maxJobs, scrapedJobsCount, queue, seen, dataset, handled>>

\* ------------------------------------------------------------------ the LIST handler

\* From the start of the handler to its first await: the host test, the
\* selector chain, the read of the budget and the choice of the enqueue path.
ListStart(w) ==
    /\ workers[w].pc = "fetch"
    /\ workers[w].req.label = "LIST"
    /\ LET u == workers[w].req.url
           page == ListPageOf(site, u)
           remainingJobs == maxJobs - scrapedJobsCount
       IN  workers' = [workers EXCEPT ![w] =
               IF ~IncludesFinn(u) THEN Returns(w, "rejected")
               ELSE IF remainingJobs <= 0 THEN Returns(w, "budget")
               ELSE [workers[w] EXCEPT
                        !.pc = IF TakesDirectPath(page) THEN "addRequests" ELSE "enqueueLinks",
                        !.remainingJobs = remainingJobs]]
    /\ handled' = Invoked(workers[w].req.url)
    /\ UNCHANGED <<probe, site, maxJobs, scrapedJobsCount, queue, seen, dataset>>

\* One round of the loop: await crawler.addRequests([{ url: urls[i], label: 'DETAIL' }])
ListAddRequest(w) ==
    /\ workers[w].pc = "addRequests"
    /\ LET page == ListPageOf(site, workers[w].req.url)
           urls == DirectUrls(JobLinks(page))
           i == workers[w].i
           st == QueueAdd(QueueState, Request(urls[i + 1], "DETAIL"))
       IN  /\ i < DirectCount(urls, workers[w].remainingJobs)
           /\ queue' = st.queue
           /\ seen' = st.seen
           /\ workers' = [workers EXCEPT ![w].i = i + 1,
                                         ![w].offered = Append(@, urls[i + 1])]
    /\ UNCHANGED <<probe, site, maxJobs, scrapedJobsCount, dataset, handled>>

\* A faulty handler that counts the jobs when it enqueues them.
ListEnqueueLinksCounts(w) ==
    /\ workers[w].pc = "enqueueLinks"
    /\ LET u == workers[w].req.url
           urls == DetailLinksEnqueued(ListPageOf(site, u), u, workers[w].remainingJobs)
           st == QueueAddAll(QueueState, urls, "DETAIL")
       IN  /\ queue' = st.queue
           /\ seen' = st.seen
           /\ scrapedJobsCount' = scrapedJobsCount + Len(urls)
           /\ workers' = [workers EXCEPT ![w].pc = "pagination", ![w].offered = urls]
    /\ UNCHANGED <<probe, site, maxJobs, dataset, handled>>

\* The other path: await enqueueLinks({ ..., label: 'DETAIL', limit: remainingJobs })
ListEnqueueLinks(w) ==
    /\ workers[w].pc = "enqueueLinks"
    /\ LET u == workers[w].req.url
           urls == DetailLinksEnqueued(ListPageOf(site, u), u, workers[w].remainingJobs)
           st == QueueAddAll(QueueState, urls, "DETAIL")
       IN  /\ queue' = st.queue
           /\ seen' = st.seen
           /\ workers' = [workers EXCEPT ![w].pc = "pagination", ![w].offered = urls]
    /\ UNCHANGED <<probe, site, maxJobs, scrapedJobsCount, dataset, handled>>

\* The loop of the direct path has ended, or enqueueLinks has returned.
AtPagination(w) ==
    \/ workers[w].pc = "pagination"
    \/ /\ workers[w].pc = "addRequests"
       /\ workers[w].i >= DirectCount(DirectUrls(JobLinks(ListPageOf(site, workers[w].req.url))),
                                      workers[w].remainingJobs)

\* The rest of the handler: the pagination links are enqueued as LIST
\* requests if more jobs are needed, and the handler returns.
ListPagination(w) ==
    /\ AtPagination(w)
    /\ LET u == workers[w].req.url
           page == ListPageOf(site, u)
           urls == IF NeedsNextPage(page, workers[w].remainingJobs)
                   THEN ListLinksEnqueued(page, u) ELSE <<>>
           st == QueueAddAll(QueueState, urls, "LIST")
       IN  /\ queue' = st.queue
           /\ seen' = st.seen
           /\ workers' = [workers EXCEPT ![w] = [Returns(w, "listed") EXCEPT !.offeredList = urls]]
    /\ UNCHANGED <<probe, site, maxJobs, scrapedJobsCount, dataset, handled>>

\* ------------------------------------------------------------------ the DETAIL handler

\* The try block up to the call of Dataset.pushData: the record is built
\* from the page and handed to the dataset.
DetailExtract(w) ==
    /\ workers[w].pc = "fetch"
    /\ workers[w].req.label = "DETAIL"
    /\ workers' = [workers EXCEPT
           ![w].pc = "pushData",
           ![w].jobData = JobData(workers[w].req, DetailPageOf(site, workers[w].req.url))]
    /\ handled' = Invoked(workers[w].req.url)
    /\ UNCHANGED <<probe, site, maxJobs, scrapedJobsCount, queue, seen, dataset>>

\* A faulty handler without the try/catch: the exception reaches the
\* crawler, which puts the request back into the queue for a retry.
DetailExtractThrowsUncaught(w) ==
    /\ workers[w].pc = "fetch"
    /\ workers[w].req.label = "DETAIL"
    /\ Count(workers[w].req.url) = 0
    /\ workers' = [workers EXCEPT ![w] = IdleWorker]
    /\ queue' = Append(queue, workers[w].req)
    /\ handled' = Invoked(workers[w].req.url)
    /\ UNCHANGED <<probe, site, maxJobs, scrapedJobsCount, seen, dataset>>

\* Something in the extraction throws: the catch block logs and the handler
\* returns.
DetailExtractThrows(w) ==
    /\ workers[w].pc = "fetch"
    /\ workers[w].req.label = "DETAIL"
    /\ workers' = [workers EXCEPT ![w] = Returns(w, "caught")]
    /\ handled' = Invoked(workers[w].req.url)
    /\ UNCHANGED <<probe, site, maxJobs, scrapedJobsCount, queue, seen, dataset>>

\* Dataset.pushData stores the record; the handler resumes later.
PushData(w) ==
    /\ workers[w].pc = "pushData"
    /\ dataset' = Append(dataset, workers[w].jobData)
    /\ workers' = [workers EXCEPT ![w].pc = "increment"]
    /\ UNCHANGED <<probe, site, maxJobs, scrapedJobsCount, queue, seen, handled>>

\* A faulty handler that counts the job before the hand-off has succeeded.
PushDataThrowsCounted(w) ==
    /\ workers[w].pc = "pushData"
    /\ scrapedJobsCount' = scrapedJobsCount + 1
    /\ workers' = [workers EXCEPT ![w] = Returns(w, "caught")]
    /\ UNCHANGED <<probe, site, maxJobs, queue, seen, dataset, handled>>

\* Dataset.pushData rejects: nothing is stored, the catch block logs.
PushDataThrows(w) ==
    /\ workers[w].pc = "pushData"
    /\ workers' = [workers EXCEPT ![w] = Returns(w, "caught")]
    /\ UNCHANGED <<probe, site, maxJobs, scrapedJobsCount, queue, seen, dataset, handled>>

\* A faulty handler that returns behind pushData without counting the job.
DetailIncrementSkipped(w) ==
    /\ workers[w].pc = "increment"
    /\ workers' = [workers EXCEPT ![w] = Returns(w, "saved")]
    /\ UNCHANGED <<probe, site, maxJobs, scrapedJobsCount, queue, seen, dataset, handled>>

\* scrapedJobsCount++ and the end of the handler.
DetailIncrement(w) ==
    /\ workers[w].pc = "increment"
    /\ scrapedJobsCount' = scrapedJobsCount + 1
    /\ workers' = [workers EXCEPT ![w] = Returns(w, "saved")]
    /\ UNCHANGED <<probe, site, maxJobs, queue, seen, dataset, handled>>

\* The crawler is done with the request; the worker is free again.
Finish(w) ==
    /\ workers[w].pc = "done"
    /\ workers' = [workers EXCEPT ![w] = IdleWorker]
    /\ UNCHANGED <<probe, site, maxJobs, scrapedJobsCount, queue, seen, dataset, handled>>

Next ==
    \E w \in Workers :
        \/ Dispatch(w)
        \/ FetchFails(w)
        \/ ListStart(w)
        \/ ListAddRequest(w)
        \/ ListEnqueueLinks(w)
        \/ ListPagination(w)
        \/ DetailExtract(w)
        \/ DetailExtractThrows(w)
        \/ PushData(w)
        \/ PushDataThrows(w)
        \/ DetailIncrement(w)
        \/ Finish(w)

Spec == Init /\ [][Next]_vars

\* ------------------------------------------------------------------ properties

\* The handler of worker w has been invoked and has not been released yet.
InHandler(w) == workers[w].pc \notin {"idle", "fetch"}

ListVisit(w) == InHandler(w) /\ workers[w].req.label = "LIST"

DetailVisit(w) == InHandler(w) /\ workers[w].req.label = "DETAIL"

\* Records stored by handlers that have not incremented the counter yet.
Reserved == Cardinality({w \in Workers : workers[w].pc = "increment"})

\* C1: the number of records handed to the dataset never exceeds maxJobs,
\* and neither does scrapedJobsCount.
C1_BudgetNeverExceeded ==
    /\ Len(dataset) <= maxJobs
    /\ scrapedJobsCount <= maxJobs

\* C2: a DETAIL handler stores its record only if the counter, together with
\* the records other handlers have stored and not yet counted, is still
\* below maxJobs (check, reserve and increment as one step).
C2_AtomicReserve ==
    [][\A w \in Workers :
          (workers[w].pc = "pushData" /\ scrapedJobsCount + Reserved >= maxJobs)
              => (dataset' = dataset /\ workers'[w].pc # "increment")]_vars

\* C3: no URL has a handler invoked for it twice, and no two records of the
\* dataset carry the same url.
C3_NoUrlTwice ==
    /\ \A u \in DOMAIN handled : handled[u] <= 1
    /\ \A i, j \in 1..Len(dataset) : dataset[i].url = dataset[j].url => i = j

\* C3 witness: two LIST handlers running at the same time have both handed
\* the same detail URL to the queue, and a record is in the dataset.
C3_Witness ==
    /\ \E w, v \in Workers :
          /\ w # v /\ ListVisit(w) /\ ListVisit(v)
          /\ Range(workers[w].offered) \cap Range(workers[v].offered) # {}
    /\ Len(dataset) > 0

\* The detail links a LIST visit discovers, in discovery order: on the
\* direct path the job links that lead to an ad, on the enqueueLinks path
\* the job links on the host of the page.
Discovered(page, u) ==
    IF TakesDirectPath(page) THEN DirectUrls(JobLinks(page))
    ELSE SameHostname(ResolveLinks(JobLinks(page), u), u)

ExtractionThrew(w) ==
    /\ workers[w].pc = "fetch"
    /\ workers[w].req.label = "DETAIL"
    /\ handled' # handled
    /\ workers'[w].pc \notin {"fetch", "pushData"}

\* C6: when the extraction of a DETAIL handler throws, nothing is stored,
\* the counter keeps its value, the handler returns normally (the crawler
\* sees no exception, so it neither retries nor fails the request), and
\* the queue and every other worker are left as they were.
C6_ExtractionFailureContained ==
    [][\A w \in Workers :
          ExtractionThrew(w) =>
              /\ dataset' = dataset
              /\ scrapedJobsCount' = scrapedJobsCount
              /\ workers'[w].pc = "done" /\ workers'[w].outcome = "caught"
              /\ queue' = queue /\ seen' = seen
              /\ \A v \in Workers \ {w} : workers'[v] = workers[v]]_vars

\* C6 witness: a DETAIL handler has returned after its extraction threw,
\* while a request is pending and another handler is running.
C6_Witness ==
    \E w, v \in Workers :
        /\ DetailVisit(w) /\ workers[w].outcome = "caught" /\ workers[w].jobData = NoRecord
        /\ queue # <<>>
        /\ InHandler(v) /\ workers[v].pc # "done"

\* C7: every record of the dataset has a non-empty title.
C7_TitleRequired ==
    \A n \in 1..Len(dataset) : dataset[n].title # ""

\* C8: the counter changes only by one, in a step of a handler whose record
\* Dataset.pushData has stored and which ends with that step; a handler
\* that ends in its catch block leaves the counter as it was.
C8_IncrementAfterHandOff ==
    [][/\ scrapedJobsCount' # scrapedJobsCount =>
             /\ scrapedJobsCount' = scrapedJobsCount + 1
             /\ \E w \in Workers :
                   /\ workers[w].pc = "increment"
                   /\ workers[w].jobData \in Range(dataset)
                   /\ workers'[w].pc = "done"
       /\ \A w \in Workers :
             (workers'[w].outcome = "caught" /\ workers[w].outcome # "caught")
                 => scrapedJobsCount' = scrapedJobsCount]_vars

\* C8 witness: a handler whose pushData threw has returned, after another
\* record had been stored and counted.
C8_Witness ==
    /\ \E w \in Workers :
          /\ DetailVisit(w) /\ workers[w].outcome = "caught"
          /\ workers[w].jobData # NoRecord
          /\ workers[w].jobData \notin Range(dataset)
    /\ scrapedJobsCount > 0

\* C9: a handler invoked for a request whose host is not the target site
\* returns at once: it hands nothing to the queue and nothing to the
\* dataset, and no record of the dataset comes from such a request.
C9_ForeignHostRejected ==
    /\ \A w \in Workers :
          (InHandler(w) /\ ~HostIsTarget(workers[w].req.url)) =>
              /\ workers[w].pc = "done"
              /\ workers[w].outcome \in {"rejected", "caught"}
              /\ workers[w].offered = <<>> /\ workers[w].offeredList = <<>>
    /\ \A n \in 1..Len(dataset) : HostIsTarget(dataset[n].url)

\* C10: once scrapedJobsCount has reached maxJobs, no step adds a request
\* to the queue.
C10_NoEnqueueAfterBudget ==
    [][scrapedJobsCount >= maxJobs => (seen' = seen /\ Len(queue') <= Len(queue))]_vars

\* ------------------------------------------------------------------ termination

\* Workers are scheduled fairly: a step that can be taken is taken.
FairSpec == Spec /\ WF_vars(Next)

\* crawler.run returns: the queue is empty and no worker holds a request.
Terminated == queue = <<>> /\ \A w \in Workers : workers[w].pc = "idle"

\* Every URL site s can bring into the queue: the seed and the links of
\* its listing pages, resolved either way.
UrlsOfSite(s) ==
    {Sites[s].seed} \cup
    UNION {Range(DirectUrls(JobLinks(Sites[s].list[u])))
           \cup Range(ResolveLinks(JobLinks(Sites[s].list[u]), u))
           \cup Range(ResolveLinks(PaginationLinks(Sites[s].list[u]), u))
           : u \in DOMAIN Sites[s].list}

RECURSIVE MaxOf(_)
MaxOf(S) ==
    IF S = {} THEN 0
    ELSE LET x == CHOOSE y \in S : TRUE
             m == MaxOf(S \ {x})
         IN  IF x > m THEN x ELSE m

\* Per site: its URLs, and the length of the longest list of job links on
\* one of its pages.
SiteFacts ==
    [s \in 1..Len(Sites) |->
        [urls |-> UrlsOfSite(s),
         maxLinks |-> MaxOf({Len(JobLinks(Sites[s].list[u])) : u \in DOMAIN Sites[s].list})]]

SiteUrls == SiteFacts[site].urls

MaxLinks == SiteFacts[site].maxLinks

\* The steps worker w's handler has left at most, not counting the work it
\* adds to the queue.
StepsLeft(w) ==
    CASE workers[w].pc = "idle" -> 0
      [] workers[w].pc = "done" -> 1
      [] workers[w].pc = "pagination" -> 2
      [] workers[w].pc = "increment" -> 2
      [] workers[w].pc = "enqueueLinks" -> 3
      [] workers[w].pc = "pushData" -> 3
      [] workers[w].pc = "addRequests" -> 3 + MaxLinks - workers[w].i
      [] workers[w].pc = "fetch" -> 4 + MaxLinks

RECURSIVE SumSteps(_)
SumSteps(W) ==
    IF W = {} THEN 0
    ELSE LET w == CHOOSE v \in W : TRUE IN StepsLeft(w) + SumSteps(W \ {w})

\* A bound on the steps the crawl has left: each URL not yet known to the
\* queue may still be enqueued once, each queued request is handled once.
Variant ==
    (6 + MaxLinks) * Cardinality(SiteUrls \ seen)
    + (5 + MaxLinks) * Len(queue)
    + SumSteps(Workers)

\* C11: the crawl terminates. Every step lowers Variant, which is never
\* negative, so no run takes more steps than Variant allows at the start;
\* and a state in which no step can be taken is one where the queue is empty
\* and no handler is running. Under fair scheduling a run therefore reaches
\* such a state and stays there.
C11_Terminates ==
    /\ [][Variant' < Variant]_vars
    /\ [](Variant >= 0 /\ seen \subseteq SiteUrls)
    /\ []((ENABLED Next) \/ Terminated)

\* C11 witness: the crawl has ended after following pagination, with
\* records stored.
C11_Witness ==
    /\ Terminated
    /\ \E u \in DOMAIN handled : u # Sites[site].seed /\ u.path = SearchPath
    /\ Len(dataset) > 0

\* ------------------------------------------------------------------ strings

\* A string is the sequence of its characters.
Lower == <<"a", "b", "c", "d", "e", "f", "g", "h", "i", "j", "k", "l", "m", "n", "o", "p", "q", "r", "s", "t", "u", "v", "w", "x", "y", "z">>
Upper == <<"A", "B", "C", "D", "E", "F", "G", "H", "I", "J", "K", "L", "M", "N", "O", "P", "Q", "R", "S", "T", "U", "V", "W", "X", "Y", "Z">>
Digits == {"0", "1", "2", "3", "4", "5", "6", "7", "8", "9"}
Alnum == Range(Lower) \cup Range(Upper) \cup Digits      \* [a-zA-Z0-9]
WordChar == Alnum \cup {"_"}                              \* \w
Whitespace == {" ", "\t", "\n"}                           \* \s
Punctuation == {",", ";", ":", "(", ")", "<", ">", "[", "]"}
LocalChar == WordChar \cup {".", "+", "-"}                \* [\w.+-]
DomainChar == WordChar \cup {"-"}                         \* [\w-]
TailChar == WordChar \cup {".", "-"}                      \* [\w.-]

ToLowerChar(c) ==
    IF \E i \in 1..Len(Upper) : Upper[i] = c
    THEN Lower[CHOOSE i \in 1..Len(Upper) : Upper[i] = c] ELSE c

ToLowerCase(s) == [i \in 1..Len(s) |-> ToLowerChar(s[i])]

MinOf(S) == CHOOSE x \in S : \A y \in S : x <= y

\* The least number of S, or else the number given for an empty S.
FirstOf(S, otherwise) == IF S = {} THEN otherwise ELSE MinOf(S)

\* The greatest number of S, or else the number given for an empty S.
LastOf(S, otherwise) == IF S = {} THEN otherwise ELSE CHOOSE x \in S : \A y \in S : y <= x

\* The word w stands in s at position i.
HasAt(s, i, w) == i >= 1 /\ i + Len(w) - 1 <= Len(s) /\ SubSeq(s, i, i + Len(w) - 1) = w

\* s.indexOf(w, from) and s.lastIndexOf(w), counting positions from 1; 0 when absent.
IndexOf(s, w, from) == FirstOf({i \in from..Len(s) : HasAt(s, i, w)}, 0)

LastIndexOf(s, w) == LastOf({i \in 1..Len(s) : HasAt(s, i, w)}, 0)

\* The last position of the longest run of characters of class that starts
\* at q; q - 1 when s[q] is not of the class.
RunEnd(s, q, class) == FirstOf({j \in q..Len(s) : s[j] \notin class}, Len(s) + 1) - 1

\* The first alternative of tokens that stands in t at position i; 0 when
\* none does.
TokenAt(t, i, tokens) == FirstOf({k \in 1..Len(tokens) : HasAt(t, i, tokens[k])}, 0)

\* s.replace(/t1|t2|.../g, rep): from left to right, the first alternative
\* that stands at a position is replaced and the scan goes on behind it.
\* The match is made on t, a copy of s (lower-cased for the flag i).
RECURSIVE ReplaceFrom(_, _, _, _, _)
ReplaceFrom(s, t, i, tokens, rep) ==
    IF i > Len(s) THEN <<>>
    ELSE IF TokenAt(t, i, tokens) = 0 THEN <<s[i]>> \o ReplaceFrom(s, t, i + 1, tokens, rep)
    ELSE rep \o ReplaceFrom(s, t, i + Len(tokens[TokenAt(t, i, tokens)]), tokens, rep)

ReplaceAll(s, tokens, rep) == ReplaceFrom(s, s, 1, tokens, rep)

ReplaceAllIgnoreCase(s, tokens, rep) == ReplaceFrom(s, ToLowerCase(s), 1, tokens, rep)

Remove(s, class) == SelectSeq(s, LAMBDA c : c \notin class)

\* ------------------------------------------------------------------ cleanEmail

standardTLDs == <<
    <<"n", "o">>,
    <<"c", "o", "m">>,
    <<"o", "r", "g">>,
    <<"n", "e", "t">>,
    <<"i", "n", "f", "o">>,
    <<"s", "e">>,
    <<"d", "k">>,
    <<"i", "o">>,
    <<"c", "o">>,
    <<"u", "k">>,
    <<"u", "s">>,
    <<"e", "u">>,
    <<"d", "e">>,
    <<"f", "r">>,
    <<"i", "t">>,
    <<"e", "s">>,
    <<"p", "l">>,
    <<"r", "u">>,
    <<"n", "l">>,
    <<"b", "e">>,
    <<"m", "e">>,
    <<"b", "i", "z">>,
    <<"g", "r", "o", "u", "p">>>>

commonWords == <<
    <<"T", "e", "l", "e", "f", "o", "n">>,
    <<"t", "e", "l", "e", "f", "o", "n">>,
    <<"T", "l", "f">>,
    <<"t", "l", "f">>,
    <<"M", "o", "b", "i", "l">>,
    <<"m", "o", "b", "i", "l">>,
    <<"N", "a", "m", "e">>,
    <<"n", "a", "m", "e">>,
    <<"N", "a", "v", "n">>,
    <<"n", "a", "v", "n">>,
    <<"K", "o", "n", "t", "a", "k", "t">>,
    <<"k", "o", "n", "t", "a", "k", "t">>,
    <<"E", "m", "a", "i", "l">>,
    <<"e", "m", "a", "i", "l">>>>

Nbsp == <<"&", "n", "b", "s", "p", ";">>
AtTokens == <<<<"[", "a", "t", "]">>, <<"[", "e", "t", "]">>, <<"(", "a", "t", ")">>, <<"@", "[", "a", "t", "]">>>>
DotTokens == <<<<"[", "d", "o", "t", "]">>, <<"[", "p", "u", "n", "k", "t", "]">>, <<"(", "d", "o", "t", ")">>, <<"(", "p", "u", "n", "k", "t", "u", "m", ")">>>>

\* No address: the function returns undefined. An address is never empty.
Undefined == <<>>

\* a ?? b, for addresses.
OrElse(a, b) == IF a # Undefined THEN a ELSE b

\* STEP 1 of cleanEmail: the five replacements, in the order of the code:
\* whitespace, &nbsp;, punctuation, the tokens for @, the tokens for the dot.
CleanedInput(dirtyEmail) ==
    ReplaceAllIgnoreCase(
        ReplaceAllIgnoreCase(
            Remove(ReplaceAll(Remove(dirtyEmail, Whitespace), <<Nbsp>>, <<>>), Punctuation),
            AtTokens, <<"@">>),
        DotTokens, <<".">>)

\* Where [\w.+-]+ that starts at q stops: the position the @ must have.
AtOf(s, q) == RunEnd(s, q, LocalChar) + 1

\* Where [\w.+-]+@[\w-]+ that starts at q stops: the position the dot must
\* have.
DotOf(s, q) == RunEnd(s, AtOf(s, q) + 1, DomainChar) + 1

\* [\w.+-]+@[\w-]+\. matches s from q on.
HasAddressHead(s, q) ==
    /\ AtOf(s, q) > q /\ AtOf(s, q) <= Len(s) /\ s[AtOf(s, q)] = "@"
    /\ DotOf(s, q) > AtOf(s, q) + 1 /\ DotOf(s, q) <= Len(s) /\ s[DotOf(s, q)] = "."

\* /^[\w.+-]+@[\w-]+\.\w+$/.test(x)
IsPlainEmail(x) ==
    /\ HasAddressHead(x, 1)
    /\ DotOf(x, 1) < Len(x) /\ RunEnd(x, DotOf(x, 1) + 1, WordChar) = Len(x)

\* The first TLD of standardTLDs (the flag i: in any case) that stands in s
\* behind the dot and is followed by the end or by a character that is no
\* letter and no digit; 0 when none does.
TldBehind(s, dot) ==
    FirstOf({k \in 1..Len(standardTLDs) :
                /\ HasAt(ToLowerCase(s), dot + 1, standardTLDs[k])
                /\ \/ dot + Len(standardTLDs[k]) = Len(s)
                   \/ s[dot + Len(standardTLDs[k]) + 1] \notin Alnum}, 0)

\* What the second group of the regular expression of extractStandardEmail
\* captures when it starts at q: [\w.+-]+ @ [\w-]+ \. (tld) and then the end
\* or a character that is no letter and no digit. Undefined when it fails.
StandardFrom(s, q) ==
    IF HasAddressHead(s, q) /\ TldBehind(s, DotOf(s, q)) # 0
    THEN SubSeq(s, q, DotOf(s, q) + Len(standardTLDs[TldBehind(s, DotOf(s, q))]))
    ELSE Undefined

\* A match that starts at p: the first group is the start of the input, or
\* else the one character s[p] that is no letter and no digit.
StandardAt(s, p) ==
    IF p = 1 /\ StandardFrom(s, 1) # Undefined THEN StandardFrom(s, 1)
    ELSE IF s[p] \notin Alnum THEN StandardFrom(s, p + 1)
    ELSE Undefined

\* The match at position p, where 0 stands for no position.
StandardAtOrNone(s, p) == IF p = 0 THEN Undefined ELSE StandardAt(s, p)

\* STEP 2: input.match(emailRegex)?.[2], the leftmost match.
extractStandardEmail(input) ==
    StandardAtOrNone(input, FirstOf({p \in 1..Len(input) : StandardAt(input, p) # Undefined}, 0))

\* What /[\w.+-]+@[\w-]+\.[\w.-]+/ matches from p on.
SimpleFrom(s, p) ==
    IF HasAddressHead(s, p) /\ RunEnd(s, DotOf(s, p) + 1, TailChar) > DotOf(s, p)
    THEN SubSeq(s, p, RunEnd(s, DotOf(s, p) + 1, TailChar))
    ELSE Undefined

SimpleFromOrNone(s, p) == IF p = 0 THEN Undefined ELSE SimpleFrom(s, p)

\* input.match(/[\w.+-]+@[\w-]+\.[\w.-]+/)?.[0], the leftmost match.
potentialEmail(input) ==
    SimpleFromOrNone(input, FirstOf({p \in 1..Len(input) : SimpleFrom(input, p) # Undefined}, 0))

\* potentialEmail.toLowerCase().indexOf('.' + tld, atPos), counted from 1.
DotTldPos(e, k) ==
    IndexOf(ToLowerCase(e), <<".">> \o standardTLDs[k], IndexOf(e, <<"@">>, 1))

\* potentialEmail.substring(0, dotTldPos + tld.length + 1)
TldCut(e, k) == SubSeq(e, 1, DotTldPos(e, k) + Len(standardTLDs[k]))

TldCutOrNone(e, k) == IF k = 0 THEN Undefined ELSE TldCut(e, k)

\* The loop over standardTLDs: the part of e up to the end of ".tld", for
\* the first tld of the list that occurs behind the @ and leaves an address.
RescueByTld(e) ==
    TldCutOrNone(e, FirstOf({k \in 1..Len(standardTLDs) :
                                /\ DotTldPos(e, k) > IndexOf(e, <<"@">>, 1)
                                /\ IsPlainEmail(TldCut(e, k))}, 0))

\* The word commonWords[k] stands right behind a would-be TLD of n
\* characters, and what is before it is an address.
WordBehindTld(e, k, n) ==
    /\ LastIndexOf(e, <<".">>) + n < Len(e)
    /\ HasAt(e, LastIndexOf(e, <<".">>) + n + 1, commonWords[k])
    /\ IsPlainEmail(SubSeq(e, 1, LastIndexOf(e, <<".">>) + n))

\* The first word of the outer loop for which some length of the inner loop
\* fits; 0 when there is none.
FirstWord(e) ==
    FirstOf({k \in 1..Len(commonWords) : \E n \in 2..6 : WordBehindTld(e, k, n)}, 0)

\* The loop over commonWords and tldLength = 2..6: the part of e before the
\* first word (in the order of the loops) that stands right behind a
\* would-be TLD and leaves an address.
RescueByWord(e) ==
    IF FirstWord(e) = 0 THEN Undefined
    ELSE SubSeq(e, 1, LastIndexOf(e, <<".">>)
                        + MinOf({n \in 2..6 : WordBehindTld(e, FirstWord(e), n)}))

\* The default: the TLD is taken to be three characters long.
RescueByDefault(e) ==
    IF /\ LastIndexOf(e, <<".">>) + 3 <= Len(e)
       /\ IsPlainEmail(SubSeq(e, 1, LastIndexOf(e, <<".">>) + 3))
    THEN SubSeq(e, 1, LastIndexOf(e, <<".">>) + 3)
    ELSE Undefined

\* The rescue of a potential address e.
Rescued(e) ==
    IF e = Undefined THEN Undefined
    ELSE IF RescueByTld(e) # Undefined THEN RescueByTld(e)
    ELSE IF LastIndexOf(e, <<".">>) <= IndexOf(e, <<"@">>, 1) THEN Undefined
    ELSE IF RescueByWord(e) # Undefined THEN RescueByWord(e)
    ELSE RescueByDefault(e)

\* STEP 3.
attemptEmailRescue(input) == Rescued(potentialEmail(input))

\* STEPS 2 and 3 on the cleaned input.
ExtractOrRescue(cleanedInput) ==
    OrElse(extractStandardEmail(cleanedInput), attemptEmailRescue(cleanedInput))

cleanEmail(dirtyEmail) == ExtractOrRescue(CleanedInput(dirtyEmail))

\* ------------------------------------------------------------------ cleanEmail on its own

\* The crawl is at rest while an extraction step is run on its own.
AtRest ==
    /\ site = 1
    /\ maxJobs = 1
    /\ scrapedJobsCount = 0
    /\ queue = <<>>
    /\ seen = {}
    /\ dataset = <<>>
    /\ workers = [w \in Workers |-> IdleWorker]
    /\ handled = <<>>

crawlVars == <<site, maxJobs, scrapedJobsCount, queue, seen, dataset, workers, handled>>

\* The inputs: what stands before the address, its local part, the @ or a
\* token for it, the domain, the dot or a token for it, the TLD, and what
\* is attached behind. Plain text without any address is among them.
Before == {<<>>, <<"E", "-", "p", "o", "s", "t", ":", " ">>, <<"<">>}
Local == {<<"j", "o", "h", "n", ".", "d", "o", "e">>, <<"a">>, <<>>}
AtSign == {<<"@">>, <<" ", "[", "a", "t", "]", " ">>, <<"(", "a", "t", ")">>}
Domain == {<<"e", "x", "a", "m", "p", "l", "e">>, <<"b", "-", "c">>}
Dot == {<<".">>, <<" ", "[", "d", "o", "t", "]", " ">>, <<"(", "p", "u", "n", "k", "t", "u", "m", ")">>}
Tld == {<<"n", "o">>, <<"c", "o", "m">>, <<"c", "o">>, <<"f", "i">>, <<"x", "y", "z">>, <<"N", "O">>, <<>>}
Behind == {<<>>, <<"T", "e", "l", "e", "f", "o", "n">>, <<"T", "l", "f">>, <<",">>, <<".", "x">>, <<"x">>, <<">">>}

EmailInputs ==
    {b \o l \o a \o d \o p \o t \o e :
        b \in Before, l \in Local, a \in AtSign, d \in Domain, p \in Dot, t \in Tld, e \in Behind}

EmailInit ==
    /\ AtRest
    /\ \E x \in EmailInputs :
          probe = [step |-> "cleanEmail", input |-> x, once |-> Undefined, twice |-> Undefined]

\* cleanEmail is applied to the input.
CleanOnce ==
    /\ probe.step = "cleanEmail"
    /\ probe' = [probe EXCEPT !.step = "cleaned", !.once = cleanEmail(probe.input)]
    /\ UNCHANGED crawlVars

\* cleanEmail is applied to its own result.
CleanTwice ==
    /\ probe.step = "cleaned"
    /\ probe' = [probe EXCEPT !.step = "cleanedTwice", !.twice = cleanEmail(probe.once)]
    /\ UNCHANGED crawlVars

EmailNext == CleanOnce \/ CleanTwice

EmailSpec == EmailInit /\ [][EmailNext]_vars

\* ------------------------------------------------------------------ properties of cleanEmail

\* C12: cleanEmail is idempotent: cleaning the result of cleanEmail again
\* gives the same result, an address or none.
C12_Idempotent ==
    probe.step = "cleanedTwice" => probe.twice = probe.once

JohnDoeObfuscated ==
    <<"j", "o", "h", "n", ".", "d", "o", "e", " ", "[", "a", "t", "]", " ", "e", "x", "a", "m", "p", "l", "e", " ", "[", "d", "o", "t", "]", " ", "n", "o">>

JohnDoe == <<"j", "o", "h", "n", ".", "d", "o", "e", "@", "e", "x", "a", "m", "p", "l", "e", ".", "n", "o">>

\* C13: the tokens [at], (at), [dot], (dot) and (punktum) are expanded to
\* @ and .: from "john.doe [at] example [dot] no" cleanEmail returns
\* "john.doe@example.no".
C13_TokensExpanded ==
    (probe.step = "cleaned" /\ probe.input = JohnDoeObfuscated) => probe.once = JohnDoe

\* ------------------------------------------------------------------ selector chain

\* The first selector of the chain that matches anything on the page; 0
\* when none does.
FirstMatching(page) ==
    LET ks == {k \in 1..Len(page.sel) : Len(page.sel[k]) > 0}
    IN  IF ks = {} THEN 0 ELSE CHOOSE k \in ks : \A j \in ks : k <= j

\* What a LIST visit discovers when the chain has given it links.
DiscoveredWith(links, page, u) ==
    IF Len(links) > 0 /\ Len(page.sel[4]) > 0 THEN DirectUrls(links)
    ELSE SameHostname(ResolveLinks(links, u), u)

\* C14: on a page where the earlier job-link selectors match nothing and
\* the k-th matches, the chain gives the links of the k-th selector, and
\* the LIST visit hands to the queue the same detail URLs, in the same
\* order and within the budget, as a chain that starts with that selector.
C14_SelectorChainEquivalence ==
    \A w \in Workers :
        (ListVisit(w) /\ workers[w].outcome = "listed") =>
            LET u == workers[w].req.url
                page == ListPageOf(site, u)
                k == FirstMatching(page)
            IN  k > 0 =>
                  /\ JobLinks(page) = page.sel[k]
                  /\ workers[w].offered =
                        Take(DiscoveredWith(page.sel[k], page, u), workers[w].remainingJobs)
                  /\ Range(workers[w].offered) \subseteq seen

\* C14 witness: a visit to a page on which only a later selector matches
\* has returned and has handed detail URLs to the queue.
C14_Witness ==
    \E w \in Workers :
        /\ ListVisit(w) /\ workers[w].outcome = "listed"
        /\ FirstMatching(ListPageOf(site, workers[w].req.url)) > 1
        /\ workers[w].offered # <<>>

\* ------------------------------------------------------------------ text of a detail page

Includes(s, w) == IndexOf(s, w, 1) # 0

\* s with the w that stands at position i replaced by rep; s when i is 0.
ReplaceAt(s, w, rep, i) ==
    IF i = 0 THEN s ELSE SubSeq(s, 1, i - 1) \o rep \o SubSeq(s, i + Len(w), Len(s))

\* s.replace(w, rep) with a string w: the first occurrence only.
ReplaceFirst(s, w, rep) == ReplaceAt(s, w, rep, IndexOf(s, w, 1))

\* s.trim()
Trim(s) ==
    SubSeq(s, FirstOf({i \in 1..Len(s) : s[i] \notin Whitespace}, 1),
              LastOf({i \in 1..Len(s) : s[i] \notin Whitespace}, 0))

\* s.replace(/\s+/g, ' ')
RECURSIVE CollapseSpaces(_)
CollapseSpaces(s) ==
    IF s = <<>> THEN <<>>
    ELSE IF Head(s) \in Whitespace
         THEN <<" ">> \o CollapseSpaces(SubSeq(s, RunEnd(s, 1, Whitespace) + 1, Len(s)))
         ELSE <<Head(s)>> \o CollapseSpaces(Tail(s))

\* The concatenation of the strings of a sequence, sep between them.
RECURSIVE Join(_, _)
Join(parts, sep) ==
    IF parts = <<>> THEN <<>>
    ELSE IF Len(parts) = 1 THEN parts[1]
    ELSE parts[1] \o sep \o Join(Tail(parts), sep)

\* list with x behind it, unless x is in it already.
AppendNew(list, x) == IF x \in Range(list) THEN list ELSE Append(list, x)

\* [...new Set(list)]: the first occurrence of each value, in order.
RECURSIVE Unique(_)
Unique(list) ==
    IF list = <<>> THEN <<>>
    ELSE AppendNew(Unique(SubSeq(list, 1, Len(list) - 1)), list[Len(list)])

\* The first element of a sequence of strings, undefined when it is empty.
FirstOrUndefined(list) == IF list = <<>> THEN Undefined ELSE list[1]

PhoneChar == Digits \cup Whitespace \cup {"-"}            \* [\d\s\-]

\* \d[\d\s\-]{7,} from position d on: the end of the match, 0 when there
\* is none.
DigitsEnd(s, d) ==
    IF d <= Len(s) /\ s[d] \in Digits /\ RunEnd(s, d + 1, PhoneChar) - d >= 7
    THEN RunEnd(s, d + 1, PhoneChar) ELSE 0

\* phoneRegex = /\+?\d[\d\s\-]{7,}/g: the end of the match that starts at
\* p, 0 when there is none.
PhoneMatchEnd(s, p) == DigitsEnd(s, IF s[p] = "+" THEN p + 1 ELSE p)

\* text.match(phoneRegex) || []: the matches from position p on, the
\* next one being the leftmost, and the search going on behind it.
RECURSIVE PhoneMatchesFrom(_, _)
RECURSIVE PhoneMatchesAt(_, _)
PhoneMatchesAt(s, q) ==
    IF q = 0 THEN <<>>
    ELSE <<SubSeq(s, q, PhoneMatchEnd(s, q))>> \o PhoneMatchesFrom(s, PhoneMatchEnd(s, q) + 1)

PhoneMatchesFrom(s, p) ==
    PhoneMatchesAt(s, FirstOf({q \in p..Len(s) : PhoneMatchEnd(s, q) # 0}, 0))

PhoneMatches(s) == PhoneMatchesFrom(s, 1)

\* The first phone number of a sequence of matches, cleaned.
FirstPhone(matches) ==
    IF matches = <<>> THEN Undefined ELSE Trim(CollapseSpaces(matches[1]))

\* emailRegex finds nothing.
NoMatch == [whole |-> <<>>, address |-> Undefined, last |-> 0]

\* A match of emailRegex in s that starts at p and ends at the position
\* last, with the address as its second group.
EmailMatch(s, p, address, last) ==
    [whole |-> SubSeq(s, p, last), address |-> address, last |-> last]

\* The position of the last character of the match whose address ends at
\* the position end: the character behind the address, if there is one,
\* belongs to the match.
WithNext(s, end) == IF end < Len(s) THEN end + 1 ELSE end

\* emailRegex = /(^|[^a-zA-Z0-9])([\w.+-]+@[\w-]+\.[\w.-]+)([^a-zA-Z0-9]|$)/g:
\* the match that starts at p and whose second group starts at q. The
\* address runs to the end of the longest run of [\w.-].
EmailMatchFrom(s, p, q) ==
    IF SimpleFrom(s, q) = Undefined THEN NoMatch
    ELSE EmailMatch(s, p, SimpleFrom(s, q), WithNext(s, q + Len(SimpleFrom(s, q)) - 1))

EmailMatchAt(s, p) ==
    IF p = 1 /\ EmailMatchFrom(s, 1, 1) # NoMatch THEN EmailMatchFrom(s, 1, 1)
    ELSE IF s[p] \notin Alnum THEN EmailMatchFrom(s, p, p + 1)
    ELSE NoMatch

\* All matches of emailRegex in s from position p on, from left to right.
RECURSIVE EmailMatchesFrom(_, _)
RECURSIVE EmailMatchesAt(_, _)
EmailMatchesAt(s, q) ==
    IF q = 0 THEN <<>>
    ELSE <<EmailMatchAt(s, q)>> \o EmailMatchesFrom(s, EmailMatchAt(s, q).last + 1)

EmailMatchesFrom(s, p) ==
    EmailMatchesAt(s, FirstOf({q \in p..Len(s) : EmailMatchAt(s, q) # NoMatch}, 0))

EmailMatches(s) == EmailMatchesFrom(s, 1)

\* The addresses of a sequence of matches of emailRegex (match[2]).
Addresses(matches) == [i \in 1..Len(matches) |-> matches[i].address]

\* new RegExp(`[\\w.+-]+@[\\w-]+\\.${tld}`, 'gi'): the end of the match
\* that starts at p, 0 when there is none.
TldMatchEnd(s, p, tld) ==
    IF HasAddressHead(s, p) /\ HasAt(ToLowerCase(s), DotOf(s, p) + 1, tld)
    THEN DotOf(s, p) + Len(tld) ELSE 0

\* All its matches in s from position p on.
RECURSIVE TldMatchesFrom(_, _, _)
RECURSIVE TldMatchesAt(_, _, _)
TldMatchesAt(s, q, tld) ==
    IF q = 0 THEN <<>>
    ELSE <<SubSeq(s, q, TldMatchEnd(s, q, tld))>> \o TldMatchesFrom(s, TldMatchEnd(s, q, tld) + 1, tld)

TldMatchesFrom(s, p, tld) ==
    TldMatchesAt(s, FirstOf({q \in p..Len(s) : TldMatchEnd(s, q, tld) # 0}, 0), tld)

\* All matches of simpleEmailRegex = /[\w.+-]+@[\w-]+\.[\w.-]+/g in s
\* from position p on.
RECURSIVE SimpleMatchesFrom(_, _)
RECURSIVE SimpleMatchesAt(_, _)
SimpleMatchesAt(s, q) ==
    IF q = 0 THEN <<>>
    ELSE <<SimpleFrom(s, q)>> \o SimpleMatchesFrom(s, q + Len(SimpleFrom(s, q)))

SimpleMatchesFrom(s, p) ==
    SimpleMatchesAt(s, FirstOf({q \in p..Len(s) : SimpleFrom(s, q) # Undefined}, 0))

\* ------------------------------------------------------------------ contact persons

\* The markup of a detail page, as the contact selectors see it: lists is
\* the sequence of the page's <ul>, each the sequence of its <li>; an <li>
\* is the text of its bold span (empty without one) and the text behind
\* it. paras are the elements that hold a <strong> and text behind it.
Li(span, rest) == [span |-> span, rest |-> rest]

LiText(li) == li.span \o li.rest

ContactPage(lists, paras) == [lists |-> lists, paras |-> paras]

\* $(elements).text(): the texts of the elements, one behind the other.
RECURSIVE TextOf(_)
TextOf(elements) == IF elements = <<>> THEN <<>> ELSE LiText(Head(elements)) \o TextOf(Tail(elements))

RECURSIVE Flatten(_)
Flatten(seqs) == IF seqs = <<>> THEN <<>> ELSE Head(seqs) \o Flatten(Tail(seqs))

\* $('body').text()
BodyText(page) == TextOf(Flatten(page.lists)) \o TextOf(page.paras)

\* The markup of a bold span; nothing for an <li> without one.
SpanHtml(span) ==
    IF span = <<>> THEN <<>>
    ELSE <<"<", "s", "p", "a", "n", ">">> \o span \o <<"<", "/", "s", "p", "a", "n", ">">>

\* $(ul).html(), without the attributes of the tags.
RECURSIVE Html(_)
Html(ul) ==
    IF ul = <<>> THEN <<>>
    ELSE <<"<", "l", "i", ">">> \o SpanHtml(Head(ul).span) \o Head(ul).rest
         \o <<"<", "/", "l", "i", ">">> \o Html(Tail(ul))

Kontaktperson == <<"K", "o", "n", "t", "a", "k", "t", "p", "e", "r", "s", "o", "n">>
KontaktpersonColon == <<"K", "o", "n", "t", "a", "k", "t", "p", "e", "r", "s", "o", "n", ":">>
Mobil == <<"M", "o", "b", "i", "l">>
MobilColon == <<"M", "o", "b", "i", "l", ":">>
Telefon == <<"T", "e", "l", "e", "f", "o", "n">>
Tlf == <<"T", "l", "f">>
PhoneLabels == <<<<"t", "e", "l", "e", "f", "o", "n", ":">>, <<"m", "o", "b", "i", "l", ":">>, <<"t", "l", "f", ":">>>>
Stillingstittel == <<"S", "t", "i", "l", "l", "i", "n", "g", "s", "t", "i", "t", "t", "e", "l">>
StillingstittelColon == <<"S", "t", "i", "l", "l", "i", "n", "g", "s", "t", "i", "t", "t", "e", "l", ":">>
EPost == <<"E", "-", "p", "o", "s", "t">>
EPostColon == <<"E", "-", "p", "o", "s", "t", ":">>
RekrutterendeLeder == <<"R", "e", "k", "r", "u", "t", "t", "e", "r", "e", "n", "d", "e", " ", "l", "e", "d", "e", "r">>
RekrutterendeLederColon == <<"R", "e", "k", "r", "u", "t", "t", "e", "r", "e", "n", "d", "e", " ", "l", "e", "d", "e", "r", ":">>

\* li:contains("Telefon"), li:contains("Mobil"), li:contains("Tlf")
IsPhoneLi(li) ==
    Includes(LiText(li), Telefon) \/ Includes(LiText(li), Mobil) \/ Includes(LiText(li), Tlf)

IsEmailLi(li) == Includes(LiText(li), EPost)

IsTitleLi(li) == Includes(LiText(li), Stillingstittel)

IsContactLi(li) == Includes(LiText(li), Kontaktperson)

\* Every match, with its whitespace collapsed and trimmed.
CleanedEach(matches) == [i \in 1..Len(matches) |-> Trim(CollapseSpaces(matches[i]))]

\* cleanedPhones: every match of phoneRegex in the text of the page,
\* with its whitespace collapsed and trimmed.
cleanedPhones(page) == CleanedEach(PhoneMatches(BodyText(page)))

\* The first three distinct numbers, joined; undefined without a number.
JoinedPhones(phones) ==
    IF phones = <<>> THEN Undefined ELSE Join(Take(Unique(phones), 3), <<" ", "/", " ">>)

\* phoneNumber
phoneNumber(page) == JoinedPhones(cleanedPhones(page))

\* The matches in text of the pattern of each standard TLD, TLD by TLD.
TldMatches(text) ==
    Flatten([k \in 1..Len(standardTLDs) |-> TldMatchesFrom(text, 1, standardTLDs[k])])

\* The addresses found in text: the matches of the strict pattern; if
\* there are none those of the pattern of each standard TLD; if there are
\* none those of the simple pattern.
RawEmailMatchesIn(text) ==
    IF EmailMatches(text) # <<>> THEN Addresses(EmailMatches(text))
    ELSE IF TldMatches(text) # <<>> THEN TldMatches(text)
    ELSE SimpleMatchesFrom(text, 1)

\* rawEmailMatches
rawEmailMatches(page) == RawEmailMatchesIn(BodyText(page))

\* cleanEmails: what cleanEmail makes of each raw match, where it makes an
\* address of it.
cleanEmails(raw) ==
    SelectSeq([i \in 1..Len(raw) |-> cleanEmail(raw[i])], LAMBDA e : e # Undefined)

\* email: the first raw match that cleanEmail accepts.
email(page) == FirstOrUndefined(cleanEmails(rawEmailMatches(page)))

\* A contact person; pattern tells which of the three branches made it.
ContactPerson(pattern, name, role, phone, mail) ==
    [pattern |-> pattern, name |-> name, role |-> role, phoneNumber |-> phone, email |-> mail]

\* The <li> of the list u whose bold span holds "Kontaktperson", as pairs
\* of list and position.
ContactElementsOf(page, u) ==
    SelectSeq([i \in 1..Len(page.lists[u]) |-> <<u, i>>],
              LAMBDA e : Includes(page.lists[u][e[2]].span, Kontaktperson))

\* contactElements: the <li> whose bold span holds "Kontaktperson", as
\* pairs of list and position, in the order of the document.
RECURSIVE ContactElementsFrom(_, _)
ContactElementsFrom(page, u) ==
    IF u > Len(page.lists) THEN <<>>
    ELSE ContactElementsOf(page, u) \o ContactElementsFrom(page, u + 1)

contactElements(page) == ContactElementsFrom(page, 1)

\* The text of the <li> given, without its label.
Unlabelled(lis, label) == Trim(ReplaceFirst(TextOf(lis), label, <<>>))

\* The text of the phone <li> given, without their labels.
PhoneOfLis(lis) == Trim(ReplaceAllIgnoreCase(TextOf(lis), PhoneLabels, <<>>))

\* The address in the "E-post" <li> given.
EmailOfLis(lis) == cleanEmail(Unlabelled(lis, EPostColon))

\* The address of the first match of emailRegex, the match taken whole
\* (match[0]); undefined without a match.
EmailOfFirstMatch(matches) ==
    IF matches = <<>> THEN Undefined ELSE cleanEmail(matches[1].whole)

\* The first of the page's phone numbers that stands in the text (an
\* empty one counts as none), else the first match of phoneRegex in the
\* text.
PhoneInText(known, text) ==
    IF known # <<>> /\ known[1] # <<>> THEN known[1]
    ELSE FirstPhone(PhoneMatches(text))

\* The phone of a structured contact: the next <li> if it says "Mobil",
\* else all phone <li> of the list, else a phone number in its text.
StructuredPhone(page, ul, i) ==
    IF i < Len(ul) /\ Includes(LiText(ul[i + 1]), Mobil)
    THEN Unlabelled(<<ul[i + 1]>>, MobilColon)
    ELSE IF SelectSeq(ul, IsPhoneLi) # <<>> THEN PhoneOfLis(SelectSeq(ul, IsPhoneLi))
    ELSE PhoneInText(SelectSeq(cleanedPhones(page), LAMBDA phone : Includes(TextOf(ul), phone)),
                     TextOf(ul))

\* The email of a structured contact: all "E-post" <li> of the list, else
\* the first match of emailRegex in the markup of the list.
StructuredEmail(ul) ==
    IF SelectSeq(ul, IsEmailLi) # <<>> THEN EmailOfLis(SelectSeq(ul, IsEmailLi))
    ELSE EmailOfFirstMatch(EmailMatches(Html(ul)))

StructuredRole(ul) ==
    IF SelectSeq(ul, IsTitleLi) # <<>> THEN Unlabelled(SelectSeq(ul, IsTitleLi), StillingstittelColon)
    ELSE Undefined

\* The contact person of the <li> at position i of the list ul.
StructuredContact(page, ul, i) ==
    ContactPerson(1, Unlabelled(<<ul[i]>>, KontaktpersonColon),
                  StructuredRole(ul), StructuredPhone(page, ul, i), StructuredEmail(ul))

\* One contact person for each of the elements.
ContactOfEach(page, elements) ==
    [n \in 1..Len(elements) |->
        StructuredContact(page, page.lists[elements[n][1]], elements[n][2])]

\* Pattern 1: one contact person for each element of contactElements.
StructuredContacts(page) == ContactOfEach(page, contactElements(page))

\* Pattern 2: $('li:contains("Kontaktperson")') taken as one contact; the
\* phone and the email from the lists of these <li>, else the page's.
LegacyLists(page) ==
    SelectSeq(page.lists, LAMBDA ul : \E i \in 1..Len(ul) : IsContactLi(ul[i]))

LegacyTrigger(page) == LegacyLists(page) # <<>>

\* The contact of pattern 2, parentList being the <li> of the lists that
\* hold a contact <li>.
LegacyContact(page, parentList) ==
    ContactPerson(2, Unlabelled(SelectSeq(Flatten(page.lists), IsContactLi), Kontaktperson),
        Undefined,
        IF SelectSeq(parentList, IsPhoneLi) # <<>> THEN PhoneOfLis(SelectSeq(parentList, IsPhoneLi))
        ELSE phoneNumber(page),
        IF SelectSeq(parentList, IsEmailLi) # <<>> THEN EmailOfLis(SelectSeq(parentList, IsEmailLi))
        ELSE email(page))

LegacyContacts(page) == <<LegacyContact(page, Flatten(LegacyLists(page)))>>

\* Pattern 3: the text around <strong>Rekrutterende leder</strong>; the
\* name is what stands before the first "|".
LeaderParas(page) == SelectSeq(page.paras, LAMBDA p : Includes(p.span, RekrutterendeLeder))

LeaderTrigger(page) == LeaderParas(page) # <<>>

\* s.split('|')[0]
BeforeBar(s) == SubSeq(s, 1, FirstOf({i \in 1..Len(s) : s[i] = "|"}, Len(s) + 1) - 1)

\* The contact of pattern 3, leaderInfo being the text of the element.
LeaderContact(leaderInfo) ==
    ContactPerson(3, Trim(BeforeBar(ReplaceFirst(leaderInfo, RekrutterendeLederColon, <<>>))),
        Undefined,
        FirstPhone(PhoneMatches(leaderInfo)),
        EmailOfFirstMatch(EmailMatches(leaderInfo)))

LeaderContacts(page) == <<LeaderContact(TextOf(LeaderParas(page)))>>

\* A faulty resolver: the three patterns are not exclusive, each that
\* matches adds its contacts.
ContactPersonsOfAllPatterns(page) ==
    (IF contactElements(page) # <<>> THEN StructuredContacts(page) ELSE <<>>)
    \o (IF LegacyTrigger(page) THEN LegacyContacts(page) ELSE <<>>)
    \o (IF LeaderTrigger(page) THEN LeaderContacts(page) ELSE <<>>)

\* contactPersons: the contacts of the first pattern that matches.
ContactPersons(page) ==
    IF contactElements(page) # <<>> THEN StructuredContacts(page)
    ELSE IF LegacyTrigger(page) THEN LegacyContacts(page)
    ELSE IF LeaderTrigger(page) THEN LeaderContacts(page)
    ELSE <<>>

\* contactPersons.length > 0 ? contactPersons : undefined
DefinedIfAny(contactPersons) ==
    [defined |-> Len(contactPersons) > 0, value |-> contactPersons]

\* The field of the record.
ContactPersonsField(page) == DefinedIfAny(ContactPersons(page))

\* ------------------------------------------------------------------ the contact resolver on its own

MaxBlocks == 3

DigitOf == <<"1", "2", "3", "4", "5", "6", "7", "8", "9">>

\* The name, the phone and the email that block b of a posting carries.
NameOf(b) == <<Upper[b]>> \o <<"l", "a">>
PhoneOf(b) == <<"9", "0", "0", " ", "0", "0", " ", "0", "0">> \o <<DigitOf[b]>>
EmailOf(b) == <<Lower[b]>> \o <<"@", "x", ".", "n", "o">>

\* The <li> of block b: the contact person, the role if the posting gives
\* one, the phone under its label, the email. In the structured markup
\* the label "Kontaktperson:" stands in a bold span.
Block(b, named, spans, withRole, phoneLabel) ==
    <<Li(IF spans THEN KontaktpersonColon ELSE <<>>,
         (IF spans THEN <<>> ELSE KontaktpersonColon)
            \o (IF named THEN <<" ">> \o NameOf(b) ELSE <<>>))>>
    \o (IF withRole THEN <<Li(StillingstittelColon, <<" ", "L", "e", "d", "e", "r">>)>> ELSE <<>>)
    \o <<Li(phoneLabel \o <<":">>, <<" ">> \o PhoneOf(b)),
         Li(EPostColon, <<" ">> \o EmailOf(b))>>

\* The line of the recruiting manager, with the name or without it.
LeaderNamed == <<Li(RekrutterendeLederColon, <<" ", "K", "a", "r", "i", " ", "M", "o", "e", " ", "|", " ", "9", "1", "1", " ", "1", "1", " ", "1", "1", "1", " ", "|", " ", "k", "a", "r", "i", "@", "y", ".", "n", "o">>)>>
LeaderUnnamed == <<Li(RekrutterendeLederColon, <<" ", "|", " ", "9", "1", "1", " ", "1", "1", " ", "1", "1", "1", " ", "|", " ", "k", "a", "r", "i", "@", "y", ".", "n", "o">>)>>

\* A posting with n contact blocks, each in a list of its own or all in
\* one list; block unnamed (if not 0) has no name.
Posting(n, ownLists, unnamed, spans, withRole, phoneLabel, paras) ==
    LET blocks == [b \in 1..n |-> Block(b, b # unnamed, spans, withRole, phoneLabel)]
    IN  ContactPage(IF ownLists \/ n = 0 THEN blocks ELSE <<Flatten(blocks)>>, paras)

ContactInit ==
    /\ AtRest
    /\ \E n \in 0..MaxBlocks, ownLists \in BOOLEAN, spans \in BOOLEAN, withRole \in BOOLEAN,
          phoneLabel \in {Mobil, Telefon}, paras \in {<<>>, LeaderNamed, LeaderUnnamed} :
          \E unnamed \in 0..n :
              probe = [step |-> "contacts",
                       blocks |-> n, ownLists |-> ownLists, unnamed |-> unnamed, spans |-> spans,
                       page |-> Posting(n, ownLists, unnamed, spans, withRole, phoneLabel, paras),
                       contactPersons |-> [defined |-> FALSE, value |-> <<>>]]

\* The DETAIL handler resolves the contact persons of the posting and
\* puts them into the record.
ResolveContacts ==
    /\ probe.step = "contacts"
    /\ probe' = [probe EXCEPT !.step = "resolved", !.contactPersons = ContactPersonsField(probe.page)]
    /\ UNCHANGED crawlVars

ContactNext == ResolveContacts

ContactSpec == ContactInit /\ [][ContactNext]_vars

\* ------------------------------------------------------------------ properties of the contact resolver

Resolved == probe.step = "resolved"

\* C15: for a posting with N structured contact blocks, each with its own
\* phone and email, the record has exactly N contact persons in the order
\* of the blocks, and the i-th carries the phone and the email of block i.
C15_OwnPhoneAndEmail ==
    (Resolved /\ probe.spans /\ probe.blocks >= 1) =>
        /\ probe.contactPersons.defined
        /\ Len(probe.contactPersons.value) = probe.blocks
        /\ \A b \in 1..probe.blocks :
              /\ b # probe.unnamed => probe.contactPersons.value[b].name = NameOf(b)
              /\ probe.contactPersons.value[b].phoneNumber = PhoneOf(b)
              /\ probe.contactPersons.value[b].email = EmailOf(b)

\* C16: no contact person of a record has an empty name.
C16_NameNeverEmpty ==
    Resolved => \A i \in 1..Len(probe.contactPersons.value) :
                    probe.contactPersons.value[i].name # <<>>

\* The first of the three patterns whose trigger matches; 0 when none does.
FirstPattern(page) ==
    IF contactElements(page) # <<>> THEN 1
    ELSE IF LegacyTrigger(page) THEN 2
    ELSE IF LeaderTrigger(page) THEN 3
    ELSE 0

\* C19: the patterns are tried in the order structured blocks, legacy
\* line, recruiting manager, and exclude each other: all contact persons
\* of a record come from the first pattern whose trigger matches, and
\* when none matches the field contactPersons is absent, not an empty list.
C19_FirstPatternOnly ==
    Resolved =>
        /\ FirstPattern(probe.page) = 0 => ~probe.contactPersons.defined
        /\ FirstPattern(probe.page) # 0 =>
              /\ probe.contactPersons.defined
              /\ probe.contactPersons.value # <<>>
              /\ \A i \in 1..Len(probe.contactPersons.value) :
                    probe.contactPersons.value[i].pattern = FirstPattern(probe.page)

\* C19 witness: a posting on which the triggers of all three patterns
\* match has been resolved into structured contacts only.
C19_Witness ==
    /\ Resolved
    /\ contactElements(probe.page) # <<>> /\ LegacyTrigger(probe.page) /\ LeaderTrigger(probe.page)
    /\ Len(probe.contactPersons.value) >= 2
    /\ \A i \in 1..Len(probe.contactPersons.value) : probe.contactPersons.value[i].pattern = 1

\* ------------------------------------------------------------------ description

MaxDescriptionLength == 2000

TruncationMarker == <<".", ".", ".", " ", "(", "t", "r", "u", "n", "c", "a", "t", "e", "d", ")">>

\* A faulty cut: content of exactly the maximum length is cut as well.
TruncateFromMaximum(description) ==
    IF Len(description) >= MaxDescriptionLength
    THEN SubSeq(description, 1, MaxDescriptionLength) \o TruncationMarker
    ELSE description

\* if (description.length > 2000) description = description.substring(0, 2000) + '... (truncated)'
Truncate(description) ==
    IF Len(description) > MaxDescriptionLength
    THEN SubSeq(description, 1, MaxDescriptionLength) \o TruncationMarker
    ELSE description

\* What .html() returns: the markup of the first element, null without one.
Markup(html) == [found |-> TRUE, html |-> html]
NoElement == [found |-> FALSE, html |-> <<>>]

\* .html() || ''
HtmlOrEmpty(m) == IF m.found THEN m.html ELSE <<>>

\* The detail page, as the description selectors see it: whether the
\* description section is there, the lists under the work-duties and the
\* qualifications headings, and the element the content is taken from.
DescriptionPage(section, workDuties, qualifications, content) ==
    [section |-> section, workDuties |-> workDuties, qualifications |-> qualifications,
     content |-> content]

Description(page) ==
    LET sections ==
            (IF page.workDuties.found
             THEN <<<<"<", "h", "3", ">", "A", "r", "b", "e", "i", "d", "s", "o", "p", "p", "g", "a", "v", "e", "r", "<", "/", "h", "3", ">">> \o page.workDuties.html>> ELSE <<>>)
            \o (IF page.qualifications.found
                THEN <<<<"<", "h", "3", ">", "K", "v", "a", "l", "i", "f", "i", "k", "a", "s", "j", "o", "n", "e", "r", "<", "/", "h", "3", ">">> \o page.qualifications.html>> ELSE <<>>)
    IN  IF page.section
        THEN IF sections = <<>> THEN Truncate(HtmlOrEmpty(page.content))
             ELSE Join(sections, <<>>)
        ELSE Truncate(HtmlOrEmpty(page.content))

\* ------------------------------------------------------------------ the description on its own

\* The lengths of content tried lie within Margin of the maximum, or are 0 or 1.
Margin == 5

ContentOf(n) == [i \in 1..n |-> Lower[(i % Len(Lower)) + 1]]

SomeList == Markup(<<"<", "l", "i", ">", "J", "a", "v", "a", "<", "/", "l", "i", ">">>)

DescriptionInit ==
    /\ AtRest
    /\ \E section \in BOOLEAN, workDuties \in {NoElement, SomeList},
          qualifications \in {NoElement, SomeList},
          content \in {NoElement} \cup {Markup(ContentOf(n)) :
                          n \in {0, 1} \cup ((MaxDescriptionLength - Margin)..(MaxDescriptionLength + Margin))} :
          /\ section => content.found
          /\ probe = [step |-> "description",
                      page |-> DescriptionPage(section, workDuties, qualifications, content),
                      description |-> <<>>]

\* The DETAIL handler extracts the description of the posting.
ExtractDescription ==
    /\ probe.step = "description"
    /\ probe' = [probe EXCEPT !.step = "described", !.description = Description(probe.page)]
    /\ UNCHANGED crawlVars

DescriptionNext == ExtractDescription

DescriptionSpec == DescriptionInit /\ [][DescriptionNext]_vars

\* C17: without the work-duties and the qualifications sections, content
\* longer than 2000 characters gives its first 2000 characters followed
\* by the truncation marker, content of at most 2000 characters is
\* returned as it is, and missing content gives the empty string.
C17_Truncation ==
    (/\ probe.step = "described"
     /\ ~probe.page.workDuties.found /\ ~probe.page.qualifications.found) =>
        LET content == probe.page.content
        IN  /\ ~content.found => probe.description = <<>>
            /\ (content.found /\ Len(content.html) <= MaxDescriptionLength) =>
                    probe.description = content.html
            /\ (content.found /\ Len(content.html) > MaxDescriptionLength) =>
                    /\ Len(probe.description) = MaxDescriptionLength + Len(TruncationMarker)
                    /\ SubSeq(probe.description, 1, MaxDescriptionLength)
                          = SubSeq(content.html, 1, MaxDescriptionLength)
                    /\ SubSeq(probe.description, MaxDescriptionLength + 1, Len(probe.description))
                          = TruncationMarker

\* C17 witness: content of more than 2000 characters has been cut, and
\* the description ends with the marker.
C17_Witness ==
    /\ probe.step = "described"
    /\ ~probe.page.workDuties.found /\ ~probe.page.qualifications.found
    /\ probe.page.content.found /\ Len(probe.page.content.html) > MaxDescriptionLength + 1
    /\ Len(probe.description) = MaxDescriptionLength + Len(TruncationMarker)

\* ------------------------------------------------------------------ the default handler

\* A request without a label, as a request queue that outlives a run can
\* still hold it at the start of the next one.
Unlabeled == ""

HasHandler(label) == label \in {"LIST", "DETAIL"}

\* request.url.includes('/search.html')
IncludesSearchPath(u) == u.path = SearchPath

\* What the default handler logs about the request.
LoggedAs(u) ==
    IF ~IncludesFinn(u) THEN "nonFinn"
    ELSE IF IncludesSearchPath(u) THEN "looksLikeList"
    ELSE IF IncludesAdPath(u) THEN "looksLikeDetail"
    ELSE "unexpected"

\* A faulty default handler: a request that looks like a listing or a
\* detail page is put back into the queue under the label it lacks.
DefaultHandlerRelabels(w) ==
    /\ workers[w].pc = "fetch"
    /\ ~HasHandler(workers[w].req.label)
    /\ workers' = [workers EXCEPT ![w] = Returns(w, LoggedAs(workers[w].req.url))]
    /\ queue' = IF LoggedAs(workers[w].req.url) = "looksLikeList"
                THEN Append(queue, Request(workers[w].req.url, "LIST"))
                ELSE IF LoggedAs(workers[w].req.url) = "looksLikeDetail"
                THEN Append(queue, Request(workers[w].req.url, "DETAIL"))
                ELSE queue
    /\ handled' = Invoked(workers[w].req.url)
    /\ UNCHANGED <<probe, site, maxJobs, scrapedJobsCount, seen, dataset>>

\* The default handler: it logs what the URL looks like and returns.
DefaultHandler(w) ==
    /\ workers[w].pc = "fetch"
    /\ ~HasHandler(workers[w].req.label)
    /\ workers' = [workers EXCEPT ![w] = Returns(w, LoggedAs(workers[w].req.url))]
    /\ handled' = Invoked(workers[w].req.url)
    /\ UNCHANGED <<probe, site, maxJobs, scrapedJobsCount, queue, seen, dataset>>

\* The requests left over from an earlier run: of each shape the default
\* handler tells apart, on the target site and off it.
Leftovers ==
    {Request(u, Unlabeled) :
        u \in {Search(8), Ad(8), Misc(8), OtherMisc(8), Url(OtherHost, AdPath, 8, "finn.no")}}

\* The sites of these crawls: one whose listing takes the enqueueLinks
\* path and one whose listing takes the addRequest path.
RouterSites == {3, 5}

\* The crawl starts on a queue that holds one leftover request; the seed
\* is added behind it.
RouterInit ==
    /\ site \in RouterSites
    /\ maxJobs \in 1..MaxJobsBound
    /\ scrapedJobsCount = 0
    /\ \E r \in Leftovers :
          /\ queue = <<r, Request(Sites[site].seed, "LIST")>>
          /\ seen = {r.url, Sites[site].seed}
    /\ dataset = <<>>
    /\ workers = [w \in Workers |-> IdleWorker]
    /\ handled = <<>>
    /\ probe = NoProbe

RouterNext ==
    \E w \in Workers :
        \/ Dispatch(w)
        \/ FetchFails(w)
        \/ ListStart(w)
        \/ ListAddRequest(w)
        \/ ListEnqueueLinks(w)
        \/ ListPagination(w)
        \/ DetailExtract(w)
        \/ DetailExtractThrows(w)
        \/ PushData(w)
        \/ PushDataThrows(w)
        \/ DetailIncrement(w)
        \/ DefaultHandler(w)
        \/ Finish(w)

RouterSpec == RouterInit /\ [][RouterNext]_vars

\* Worker w takes a step while it holds a request that has no handler.
DefaultVisitStep(w) ==
    /\ workers[w].pc # "idle"
    /\ ~HasHandler(workers[w].req.label)
    /\ workers'[w] # workers[w]

\* C18: the default handler only logs: while a worker works on a request
\* without a handler, whatever its URL, no request is enqueued, no record
\* is stored and scrapedJobsCount stays as it is; the handler returns and
\* the request is not tried again.
C18_DefaultHandlerOnlyLogs ==
    [][\A w \in Workers :
          DefaultVisitStep(w) =>
              /\ UNCHANGED <<queue, seen, dataset, scrapedJobsCount>>
              /\ workers'[w].pc \in {"done", "idle"}
              /\ Count(workers[w].req.url)' <= 1]_vars

\* C18 witness: the default handler has returned from a leftover request
\* that looks like a detail page, and the crawl has stored a record.
C18_Witness ==
    \E w \in Workers :
        /\ workers[w].pc = "done"
        /\ workers[w].outcome = "looksLikeDetail"
        /\ dataset # <<>>

\* ------------------------------------------------------------------ what each handler touches

\* Worker w takes a step of the handler for label.
HandlerStep(w, label) ==
    /\ workers[w].pc # "idle"
    /\ workers[w].req.label = label
    /\ workers'[w] # workers[w]

\* C20: the handlers touch disjoint parts of the shared state: no step of
\* a DETAIL handler changes the request queue, and no step of a LIST
\* handler stores a record or changes scrapedJobsCount.
C20_DisjointFrames ==
    [][\A w \in Workers :
          /\ HandlerStep(w, "DETAIL") => UNCHANGED <<queue, seen>>
          /\ HandlerStep(w, "LIST") => UNCHANGED <<dataset, scrapedJobsCount>>]_vars

\* C20 witness: a LIST visit that has enqueued detail URLs and a DETAIL
\* visit that has stored its record and counted it have both returned.
C20_Witness ==
    \E v, w \in Workers :
        /\ ListVisit(v) /\ workers[v].outcome = "listed" /\ workers[v].offered # <<>>
        /\ DetailVisit(w) /\ workers[w].outcome = "saved"
        /\ scrapedJobsCount > 0 /\ dataset # <<>>

\* ------------------------------------------------------------------ the counter and the dataset

\* A DETAIL handler of some worker has started and has not returned yet.
DetailInFlight == \E w \in Workers : DetailVisit(w) /\ workers[w].pc # "done"

\* C21: scrapedJobsCount never decreases and never exceeds the number of
\* records stored; it falls short of that number by exactly the number of
\* DETAIL handlers between their completed pushData and their increment,
\* so it equals the number of records whenever no DETAIL handler is in
\* flight.
C21_CounterTracksDataset ==
    /\ [](/\ scrapedJobsCount <= Len(dataset)
          /\ Len(dataset) - scrapedJobsCount = Reserved
          /\ ~DetailInFlight => scrapedJobsCount = Len(dataset))
    /\ [][scrapedJobsCount' >= scrapedJobsCount]_vars

\* C21 witness: one handler has counted its record, and another stands
\* between its completed pushData and its increment, so that the counter
\* is behind the dataset.
C21_Witness ==
    /\ scrapedJobsCount > 0
    /\ scrapedJobsCount < Len(dataset)
    /\ \E w \in Workers : DetailVisit(w) /\ workers[w].pc = "increment"

====
